---- MODULE Spec2Model ----
(***************************************************************************)
(* Planning poker server (src/server.py): the room registry, the rooms     *)
(* and one websocket_handler coroutine per connection, interleaved by the  *)
(* event loop at the awaits of the handler.                                *)
(***************************************************************************)
EXTENDS Integers, FiniteSets, Sequences, TLC

\* Bounds of the model: vote, reveal and reset frames handled in a run.
MaxMsgs == 3             \* in a run of Spec and of SpecHist (two connections)
MaxMsgsWide == 1         \* in a run of SpecWide (three connections)
MaxMsgsRooms == 2        \* in a run of SpecRooms (two room identifiers)

\* The connections (WebSocketResponse objects) ever opened.
Conns == {1, 2, 3}
RoomIds == {"R1", "R2"}
Users == {"alice", "bob"}
\* Vote values are opaque but for what the codec does with them: "null" is
\* the None that data.get("value") gives when the frame has no value field,
\* Deep a value nested so deep that json.loads decodes it and json.dumps,
\* called deeper in the stack by ws.send_json, raises RecursionError.
Deep == "deep"
Values == {"5", "null", Deep}
\* A query parameter that is missing or empty is "".
Missing == ""
NoVote == "-"            \* the user name is not a key of room.votes
NoRoom == 0              \* the identifier is not a key of self.rooms
NoConn == 0              \* no connection
NoMsg == << >>           \* no state message (a message is a one-element sequence)

\* Frames the handler ignores: not JSON, an object without type, an object
\* with an unknown type. NonObject: JSON that is not an object. Undecoded:
\* frames on which json.loads raises something else than JSONDecodeError, a
\* ValueError for an integer literal of more than 4300 digits or a
\* RecursionError for a nesting too deep for the decoder.
Ignored == {"badjson", "notype", "unknown"}
NonObject == "nonobject"
Undecoded == {"bigint", "toodeep"}

VARIABLES
    rooms,      \* self.rooms: room identifier -> Room object (or NoRoom)
    clients,    \* Room.clients of each Room object
    votes,      \* Room.votes of each Room object
    revealed,   \* Room.revealed of each Room object
    pc,         \* position of each connection's websocket_handler
    room_id,    \* handler local room_id
    user,       \* handler local user (also ws.headers["client-id"])
    room,       \* handler local room: the Room object the handler holds
    action,     \* handler local action of the frame being handled
    payload,    \* broadcast_room_state local payload["revealed"]
    pending,    \* broadcast_room_state: part of list(room.clients) not yet iterated
    sending,    \* broadcast_room_state: the ws whose send_json the handler awaits
    broken,     \* the connection's transport no longer accepts a send
    nmsgs,      \* vote, reveal and reset frames handled so far
    pass,       \* record of the handler's broadcast pass in progress (see NoPass)
    lastMsg,    \* history: last state message each connection received
    seen,       \* history: every (votes, revealed) pair each Room object has held
    lastOp      \* history: last operation applied to each Room object

vars == <<rooms, clients, votes, revealed, pc, room_id, user, room, action,
          payload, pending, sending, broken, nmsgs, pass, lastMsg, seen, lastOp>>

\* A Room object is named by the connection whose handler constructed it.
Objs == Conns

EmptyVotes == [u \in Users |-> NoVote]

\* The pair (votes, revealed) of a room.
Pair(vs, rv) == [votes |-> vs, revealed |-> rv]

State(o) == Pair(votes[o], revealed[o])

\* The Room object o as a record.
Room(o) == [clients |-> clients[o], votes |-> votes[o], revealed |-> revealed[o]]

\* Room.__init__
NewRoom == [clients |-> {}, votes |-> EmptyVotes, revealed |-> FALSE]


\* Room.add_client
add_client(cs, ws) == cs \cup {ws}

\* remove_client as it would be if it kept a vote that another member of the
\* same user name shares.
remove_client_keeps_shared(r, ws) ==
    [clients |-> r.clients \ {ws},
     votes |-> IF \E d \in r.clients \ {ws} : user[d] = user[ws]
               THEN r.votes
               ELSE [r.votes EXCEPT ![user[ws]] = NoVote],
     revealed |-> r.revealed]

\* remove_client as it would be if it dropped every vote of the room.
remove_client_all_votes(r, ws) ==
    [clients |-> r.clients \ {ws}, votes |-> EmptyVotes, revealed |-> r.revealed]

\* Room.remove_client: discard the connection, pop the vote keyed by its
\* client-id header.
remove_client(r, ws) ==
    [clients |-> r.clients \ {ws},
     votes |-> [r.votes EXCEPT ![user[ws]] = NoVote],
     revealed |-> r.revealed]

\* reset as it would be without line 67.
reset_votes_only(s) == Pair(EmptyVotes, s.revealed)

\* Room.reset
reset(s) == Pair(EmptyVotes, FALSE)

\* The vote branch as it would be without lines 120-121.
submit_vote_stays_revealed(s, u, v) == Pair([s.votes EXCEPT ![u] = v], s.revealed)

\* websocket_handler, action == "vote": lines 116-121
submit_vote(s, u, v) ==
    Pair([s.votes EXCEPT ![u] = v], IF s.revealed THEN FALSE ELSE s.revealed)

\* The reveal branch as it would be if it cleared the votes.
reveal_clears_votes(s) == Pair(EmptyVotes, TRUE)

\* The reveal branch as it would be if it toggled the flag.
reveal_toggles(s) == Pair(s.votes, ~s.revealed)

\* websocket_handler, action == "reveal": line 124
reveal(s) == Pair(s.votes, TRUE)

\* websocket_handler lines 114-128: what a frame of type act does to the
\* room's pair.
Apply(s, act, u, v) ==
    CASE act = "vote" -> submit_vote(s, u, v)
      [] act = "reveal" -> reveal(s)
      [] act = "reset" -> reset(s)

\* The pairs a room passes through while a frame is applied, write by write
\* (lines 118 and 121, 124, 66 and 67).
Writes(s, act, u, v) ==
    CASE act = "vote" -> {Pair([s.votes EXCEPT ![u] = v], s.revealed), submit_vote(s, u, v)}
      [] act = "reveal" -> {reveal(s)}
      [] act = "reset" -> {Pair(EmptyVotes, s.revealed), reset(s)}

\* What is recorded about a broadcast pass while it runs:
\*   pre     room.revealed when the frame that started the pass arrived
\*   member  the sender was in room.clients when the frame arrived
\*   value   the value of the frame (NoVote unless the frame is a vote)
\*   targets list(room.clients) as taken when the pass began
\*   start   the room's pair when the pass began
\*   quiet   no other frame of the room has been handled since
\*   kept    remove_client has not been called since for a connection with
\*           the sender's user name
NoPass == [pre |-> FALSE, member |-> FALSE, value |-> NoVote, targets |-> {},
           start |-> Pair(EmptyVotes, FALSE), quiet |-> FALSE, kept |-> FALSE]

Init ==
    /\ rooms = [r \in RoomIds |-> NoRoom]
    /\ clients = [o \in Objs |-> NewRoom.clients]
    /\ votes = [o \in Objs |-> NewRoom.votes]
    /\ revealed = [o \in Objs |-> NewRoom.revealed]
    /\ pc = [c \in Conns |-> "idle"]
    /\ room_id = [c \in Conns |-> Missing]
    /\ user = [c \in Conns |-> Missing]
    /\ room = [c \in Conns |-> NoRoom]
    /\ action = [c \in Conns |-> "none"]
    /\ payload = [c \in Conns |-> FALSE]
    /\ pending = [c \in Conns |-> {}]
    /\ sending = [c \in Conns |-> NoConn]
    /\ broken = [c \in Conns |-> FALSE]
    /\ nmsgs = 0
    /\ pass = [c \in Conns |-> NoPass]
    /\ lastMsg = [c \in Conns |-> NoMsg]
    /\ seen = [o \in Objs |-> {Pair(NewRoom.votes, NewRoom.revealed)}]
    /\ lastOp = [o \in Objs |-> "none"]

\* A history variable takes its new value in the runs that keep it (H is
\* the set of the history variables kept) and stays as it is in the others.
Keep(on, old, new) == IF on THEN new ELSE old

\* self.rooms.setdefault(room_id, Room()): the Room object registered under
\* rid, or the one constructed by connection c.
setdefault(rid, c) == IF rooms[rid] # NoRoom THEN rooms[rid] ELSE c

\* The handler as it would be if it resolved the room before testing the
\* parameters: a request with a room identifier and no user registers a room.
Reject_registers(K, c, rid, u) ==
    /\ pc[c] = "idle"
    /\ c \in K
    /\ \A d \in Conns : d < c => pc[d] # "idle"
    /\ rid = Missing \/ u = Missing
    /\ pc' = [pc EXCEPT ![c] = "rejected"]
    /\ rooms' = IF rid # Missing THEN [rooms EXCEPT ![rid] = setdefault(rid, c)] ELSE rooms
    /\ UNCHANGED <<clients, votes, revealed, room_id, user, room, action,
                   payload, pending, sending, broken, nmsgs, pass, lastMsg, seen, lastOp>>

\* websocket_handler lines 86-89: a query parameter is missing or empty; the
\* handler returns the response with status 400 and has done nothing else.
\* Its locals room_id and user are dead and keep their initial values.
Reject(K, c, rid, u) ==
    /\ pc[c] = "idle"
    /\ c \in K
    /\ \A d \in Conns : d < c => pc[d] # "idle"
    /\ rid = Missing \/ u = Missing
    /\ pc' = [pc EXCEPT ![c] = "rejected"]
    /\ UNCHANGED <<rooms, clients, votes, revealed, room_id, user, room, action,
                   payload, pending, sending, broken, nmsgs, pass, lastMsg, seen, lastOp>>

\* json.dumps(payload) raises RecursionError: a vote of the payload is Deep.
dumps_raises(vs) == \E u \in Users : vs[u] = Deep

\* websocket_handler lines 86-104 with send_room_state: both parameters are
\* present; the handler gets or creates the room, adds the connection, sends
\* it the room's state and suspends waiting for a frame. ws.prepare suspends
\* the handler before it has read or written anything shared, so the step is
\* taken when the handler resumes from it. ok = FALSE: the peer is gone by
\* the time of the send, whose ConnectionResetError is swallowed. When
\* json.dumps raises in send_json, the RecursionError is not caught by
\* send_room_state and leaves the handler at line 104, outside the try: the
\* handler ends without its finally clause, the connection stays in
\* room.clients and is closed.
\* Connections are opened in the order of their names, those of K only.
Join(K, H, c, rid, u, ok) ==
    /\ pc[c] = "idle"
    /\ c \in K
    /\ \A d \in Conns : d < c => pc[d] # "idle"
    /\ rid # Missing /\ u # Missing
    /\ room_id' = [room_id EXCEPT ![c] = rid]
    /\ user' = [user EXCEPT ![c] = u]
    /\ LET o == setdefault(rid, c)
           sent == ~dumps_raises(votes[o])
       IN /\ rooms' = [rooms EXCEPT ![rid] = o]
          /\ room' = [room EXCEPT ![c] = o]
          /\ clients' = [clients EXCEPT ![o] = add_client(@, c)]
          /\ broken' = [broken EXCEPT ![c] = ~ok \/ ~sent]
          /\ pc' = [pc EXCEPT ![c] = IF sent THEN "recv" ELSE "raised"]
          /\ lastMsg' = Keep("lastMsg" \in H /\ ok /\ sent, lastMsg,
                             [lastMsg EXCEPT ![c] = <<State(o)>>])
          /\ lastOp' = Keep("lastOp" \in H, lastOp, [lastOp EXCEPT ![o] = "join"])
    /\ UNCHANGED <<votes, revealed, action, payload, pending, sending, nmsgs, pass, seen>>

\* The peer or the network drops the connection: from now on a send to it
\* raises. Frames already received stay readable by its handler.
Break(c) ==
    /\ pc[c] \in {"recv", "broadcast"}
    /\ ~broken[c]
    /\ broken' = [broken EXCEPT ![c] = TRUE]
    /\ UNCHANGED <<rooms, clients, votes, revealed, pc, room_id, user, room,
                   action, payload, pending, sending, nmsgs, pass, lastMsg, seen, lastOp>>

\* The loop as it would be if a failed send ended it.
LoopDone_on_failure(rest, ok) == rest = {} \/ ~ok

\* The for loop of broadcast_room_state is over once list(room.clients) is
\* exhausted, whatever the outcome of the sends.
LoopDone(rest, ok) == rest = {}

\* The message a send delivers: json.dumps(payload) at the time of the send,
\* the votes read through the reference to room.votes that the payload
\* holds, revealed as copied into the payload when the pass began.
Serialise(s, pl) == Pair(s.votes, pl)

\* broadcast_room_state lines 158-163 from the head of the for loop to the
\* next suspension of the handler, on the Room r with payload["revealed"]
\* pl, targets left pend, messages received lm; ok: the send before did not
\* raise. Each way the run can go gives one outcome: the Room, the messages,
\* the pairs the Room has held on the way, the connections removed (ev),
\* the targets left and the ws whose send_json the handler is suspended in
\* (NoConn: the loop is over). A send
\* to ws goes one of these ways:
\*   json.dumps raises at once (a vote is Deep): ws is removed, the loop
\*     goes on without a suspension;
\*   the transport of ws is broken: send_json raises at once, ws is removed
\*     and the loop goes on; or send_json suspends, to raise when resumed;
\*   otherwise the message, serialised now, is delivered and send_json
\*     suspends (a send_json that returns without suspending is this outcome
\*     with the handler resumed before any other handler runs).
RECURSIVE RunLoop(_, _, _, _, _, _, _)
RunLoop(r, pl, pend, lm, held, ev, ok) ==
    IF LoopDone(pend, ok)
    THEN {[room |-> r, msgs |-> lm, held |-> held, evicted |-> ev,
           pending |-> {}, sending |-> NoConn]}
    ELSE UNION {
           LET rest == pend \ {ws}
               r1 == remove_client(r, ws)
               raised == RunLoop(r1, pl, rest, lm,
                                 held \cup {Pair(r1.votes, r1.revealed)},
                                 ev \cup {ws}, FALSE)
               suspended(m) == {[room |-> r, msgs |-> m, held |-> held, evicted |-> ev,
                                 pending |-> rest, sending |-> ws]}
           IN IF dumps_raises(r.votes) THEN raised
              ELSE IF broken[ws] THEN raised \cup suspended(lm)
              ELSE suspended([lm EXCEPT ![ws] = <<Serialise(r, pl)>>])
           : ws \in pend }

\* The handler of c, in a pass on Room object o, reaches the suspension (or
\* the end of the loop) that the outcome out describes. act is the type of
\* the frame of the pass, pl its payload["revealed"], ps the pass records
\* before. When the loop is over the handler is back at line 107; its locals
\* action and payload are dead from then on and are set back to their
\* initial values.
Iterate(H, c, o, out, act, pl, ps) ==
    LET done == out.sending = NoConn
        ps1 == [d \in Conns |->
                  IF /\ d = c \/ (pc[d] = "broadcast" /\ room[d] = o)
                     /\ \E x \in out.evicted : user[x] = user[d]
                  THEN [ps[d] EXCEPT !.kept = FALSE]
                  ELSE ps[d]]
    IN /\ clients' = [clients EXCEPT ![o] = out.room.clients]
       /\ votes' = [votes EXCEPT ![o] = out.room.votes]
       /\ revealed' = [revealed EXCEPT ![o] = out.room.revealed]
       /\ pending' = [pending EXCEPT ![c] = out.pending]
       /\ sending' = [sending EXCEPT ![c] = out.sending]
       /\ pc' = [pc EXCEPT ![c] = IF done THEN "recv" ELSE "broadcast"]
       /\ payload' = [payload EXCEPT ![c] = IF done THEN FALSE ELSE pl]
       /\ action' = [action EXCEPT ![c] = IF done THEN "none" ELSE act]
       /\ pass' = [ps1 EXCEPT ![c] = IF done THEN NoPass ELSE @]
       /\ lastMsg' = Keep("lastMsg" \in H, lastMsg, out.msgs)
       /\ seen' = Keep("seen" \in H, seen, [seen EXCEPT ![o] = @ \cup out.held])

\* The outcomes of the run that a frame of type act and value v from the
\* handler of c starts: the room is mutated (lines 114-128), the payload is
\* built, list(room.clients) is taken and the loop is run.
FrameOutcomes(c, act, v) ==
    LET o == room[c]
        s0 == State(o)
        s1 == Apply(s0, act, user[c], v)
    IN RunLoop([clients |-> clients[o], votes |-> s1.votes, revealed |-> s1.revealed],
               s1.revealed, clients[o], lastMsg, Writes(s0, act, user[c], v), {}, TRUE)

\* websocket_handler lines 107-128: a text frame whose type is vote, reveal
\* or reset arrives. The room is mutated and broadcast_room_state runs up to
\* its first suspension, with the outcome out.
Frame(M, H, c, act, v, out) ==
    /\ pc[c] = "recv"
    /\ nmsgs < M
    /\ nmsgs' = nmsgs + 1
    /\ LET o == room[c]
           s0 == State(o)
           s1 == Apply(s0, act, user[c], v)
           ps == [d \in Conns |->
                    IF d = c
                    THEN [pre |-> s0.revealed, member |-> c \in clients[o],
                          value |-> v, targets |-> clients[o], start |-> s1,
                          quiet |-> TRUE, kept |-> TRUE]
                    ELSE IF pc[d] = "broadcast" /\ room[d] = o
                         THEN [pass[d] EXCEPT !.quiet = FALSE]
                         ELSE pass[d]]
       IN /\ lastOp' = Keep("lastOp" \in H, lastOp, [lastOp EXCEPT ![o] = act])
          /\ Iterate(H, c, o, out, act, s1.revealed, ps)
    /\ UNCHANGED <<rooms, room_id, user, room, broken>>
    /\ out \in FrameOutcomes(c, act, v)

RecvVote(M, H, c, v) ==
    /\ pc[c] = "recv"
    /\ \E out \in FrameOutcomes(c, "vote", v) : Frame(M, H, c, "vote", v, out)

RecvReveal(M, H, c) ==
    /\ pc[c] = "recv"
    /\ \E out \in FrameOutcomes(c, "reveal", NoVote) : Frame(M, H, c, "reveal", NoVote, out)

RecvReset(M, H, c) ==
    /\ pc[c] = "recv"
    /\ \E out \in FrameOutcomes(c, "reset", NoVote) : Frame(M, H, c, "reset", NoVote, out)

\* The send_json that the handler of c awaits raises when the handler is
\* resumed: the transport of its ws is broken.
SendRaises(c) == broken[sending[c]]

\* The outcomes of the run that the handler of c makes when it is resumed
\* from the send_json it awaits: the ws is removed if the send raises (line
\* 163) and the loop is run.
ResumeOutcomes(c) ==
    LET r0 == Room(room[c])
        r1 == IF SendRaises(c) THEN remove_client(r0, sending[c]) ELSE r0
    IN RunLoop(r1, payload[c], pending[c], lastMsg, {Pair(r1.votes, r1.revealed)},
               IF SendRaises(c) THEN {sending[c]} ELSE {}, ~SendRaises(c))

\* broadcast_room_state is resumed from a send and runs up to its next
\* suspension, with the outcome out.
SendNext(H, c, out) ==
    /\ pc[c] = "broadcast"
    /\ Iterate(H, c, room[c], out, action[c], payload[c], pass)
    /\ UNCHANGED <<rooms, room_id, user, room, broken, nmsgs, lastOp>>
    /\ out \in ResumeOutcomes(c)

BroadcastNext(H, c) ==
    /\ pc[c] = "broadcast"
    /\ \E out \in ResumeOutcomes(c) : SendNext(H, c, out)

\* websocket_handler lines 109-113 and the fall-through of 114-128: the
\* frame is not JSON (continue), or is an object whose type is absent or
\* unknown (no branch taken). Nothing is written and nothing is sent.
RecvIgnored(c, kind) ==
    /\ pc[c] = "recv"
    /\ kind \in Ignored
    /\ UNCHANGED vars

\* The finally clause as it would be if it cleared the registry.
pop_every_if_empty(r, rid) ==
    IF r.clients = {} THEN [x \in RoomIds |-> NoRoom] ELSE rooms


\* websocket_handler lines 135-136: self.rooms.pop(room_id, None) when the
\* handler's Room object r has no clients left.
pop_if_empty(r, rid) ==
    IF r.clients = {} THEN [rooms EXCEPT ![rid] = NoRoom] ELSE rooms

\* The finally clause as it would be if it broadcast the room's state to the
\* members left.
Finally_rebroadcasts(H, c, to) ==
    LET o == room[c]
        r1 == remove_client(Room(o), c)
    IN /\ clients' = [clients EXCEPT ![o] = r1.clients]
       /\ votes' = [votes EXCEPT ![o] = r1.votes]
       /\ rooms' = pop_if_empty(r1, room_id[c])
       /\ pc' = [pc EXCEPT ![c] = to]
       /\ broken' = [broken EXCEPT ![c] = TRUE]
       /\ pass' = [d \in Conns |->
                     IF pc[d] = "broadcast" /\ room[d] = o /\ user[d] = user[c]
                     THEN [pass[d] EXCEPT !.kept = FALSE]
                     ELSE pass[d]]
       /\ lastMsg' = Keep("lastMsg" \in H, lastMsg,
                          [d \in Conns |->
                              IF d = c THEN NoMsg
                              ELSE IF d \in r1.clients /\ ~broken[d]
                                   THEN <<Pair(r1.votes, r1.revealed)>>
                                   ELSE lastMsg[d]])
       /\ seen' = Keep("seen" \in H, seen, [seen EXCEPT ![o] = @ \cup {Pair(r1.votes, r1.revealed)}])
       /\ lastOp' = Keep("lastOp" \in H, lastOp, [lastOp EXCEPT ![o] = "leave"])
       /\ UNCHANGED <<revealed, room_id, user, room, action, payload, pending, sending, nmsgs>>

\* websocket_handler lines 131-137, the finally clause: the connection is
\* removed from the Room object the handler holds, and the registry entry of
\* the handler's room_id is popped if that object has no clients left. The
\* handler ends at "to" (it returns, or the exception that brought it here
\* propagates) and the connection is closed.
Finally(H, c, to) ==
    LET o == room[c]
        r1 == remove_client(Room(o), c)
    IN /\ clients' = [clients EXCEPT ![o] = r1.clients]
       /\ votes' = [votes EXCEPT ![o] = r1.votes]
       /\ rooms' = pop_if_empty(r1, room_id[c])
       /\ pc' = [pc EXCEPT ![c] = to]
       /\ broken' = [broken EXCEPT ![c] = TRUE]
       /\ pass' = [d \in Conns |->
                     IF pc[d] = "broadcast" /\ room[d] = o /\ user[d] = user[c]
                     THEN [pass[d] EXCEPT !.kept = FALSE]
                     ELSE pass[d]]
       /\ lastMsg' = Keep("lastMsg" \in H, lastMsg, [lastMsg EXCEPT ![c] = NoMsg])
       /\ seen' = Keep("seen" \in H, seen, [seen EXCEPT ![o] = @ \cup {Pair(r1.votes, r1.revealed)}])
       /\ lastOp' = Keep("lastOp" \in H, lastOp, [lastOp EXCEPT ![o] = "leave"])
       /\ UNCHANGED <<revealed, room_id, user, room, action, payload, pending, sending, nmsgs>>

\* websocket_handler line 113 on a frame that is JSON but not an object:
\* data.get raises AttributeError, which no except clause of the handler
\* catches; the finally clause runs and the handler ends.
RecvNonObject(H, c) ==
    /\ pc[c] = "recv"
    /\ Finally(H, c, "raised")

\* websocket_handler line 110 on a frame of Undecoded: json.loads raises a
\* ValueError or a RecursionError, which except json.JSONDecodeError does
\* not catch; the finally clause runs and the handler ends.
RecvUndecoded(H, c, kind) ==
    /\ pc[c] = "recv"
    /\ kind \in Undecoded
    /\ Finally(H, c, "raised")

\* The async for of line 107 ends (close frame or end of stream).
Disconnect(H, c) ==
    /\ pc[c] = "recv"
    /\ Finally(H, c, "done")

\* The steps of the server with the connections of K, at most M vote,
\* reveal and reset frames, history kept or not (H), votes of the values of
\* V and rooms of the identifiers of R.
Steps(K, M, H, V, R) ==
    \/ \E c \in Conns, rid \in R \cup {Missing}, u \in Users \cup {Missing} :
          \/ Reject(K, c, rid, u)
          \/ \E ok \in BOOLEAN : Join(K, H, c, rid, u, ok)
    \/ \E c \in Conns :
          \/ Break(c)
          \/ \E v \in V : RecvVote(M, H, c, v)
          \/ RecvReveal(M, H, c)
          \/ RecvReset(M, H, c)
          \/ BroadcastNext(H, c)
          \/ \E kind \in Ignored : RecvIgnored(c, kind)
          \/ RecvNonObject(H, c)
          \/ \E kind \in Undecoded : RecvUndecoded(H, c, kind)
          \/ Disconnect(H, c)

Pairs == {1, 2}

\* The vote values of Spec and of SpecWide.
SpecVotes == {"5", Deep}

\* Two connections, one room identifier, MaxMsgs frames, votes of an
\* ordinary value or of Deep, the messages received kept.
Next == Steps(Pairs, MaxMsgs, {"lastMsg"}, SpecVotes, {"R1"})

Spec == Init /\ [][Next]_vars

\* Two connections, one room identifier, MaxMsgs frames, votes of two
\* ordinary values, all history kept.
NextHist == Steps(Pairs, MaxMsgs, {"lastMsg", "seen", "lastOp"}, {"5", "null"}, {"R1"})

SpecHist == Init /\ [][NextHist]_vars

\* Three connections, one room identifier, MaxMsgsWide frames, no history.
NextWide == Steps(Conns, MaxMsgsWide, {}, SpecVotes, {"R1"})

SpecWide == Init /\ [][NextWide]_vars

\* Two connections, two room identifiers, MaxMsgsRooms frames, votes of one
\* value, the messages received kept.
NextRooms == Steps(Pairs, MaxMsgsRooms, {"lastMsg"}, {"5"}, RoomIds)

SpecRooms == Init /\ [][NextRooms]_vars

\* The handler of c has ended: it returned, or an exception left it.
Ended(c) == pc[c] \in {"done", "raised"}

\* The handler of c is running: it has joined and has not ended.
Running(c) == pc[c] \in {"recv", "broadcast"}

\* Room object o has been constructed and registered by a handler.
Created(o) == room[o] = o

\* Room object o is the one the registry holds for its identifier.
Registered(o) == Created(o) /\ rooms[room_id[o]] = o

(***************************************************************************)
(* C1. A room identifier has a registry entry exactly when the Room        *)
(* registered under it has at least one member: every registered Room has  *)
(* a client, and every Room with a client is registered.                   *)
(***************************************************************************)
C1_RegisteredIffMembers ==
    /\ \A rid \in RoomIds : rooms[rid] # NoRoom => clients[rooms[rid]] # {}
    /\ \A o \in Objs : clients[o] # {} => Registered(o)

(***************************************************************************)
(* C2. Every state message delivered to a connection carries a pair        *)
(* (votes, revealed) that the room has held at some moment.                *)
(***************************************************************************)
C2_NoTornMessage ==
    \A c \in Conns : lastMsg[c] # NoMsg => lastMsg[c][1] \in seen[room[c]]

\* No broadcast pass of Room object o is in progress.
NoPassOn(o) == \A c \in Conns : pc[c] = "broadcast" => room[c] # o

(***************************************************************************)
(* C3. Whenever no broadcast of a room is in progress and the last         *)
(* operation on the room was a vote, reveal or reset, the last state       *)
(* message received by each member whose connection is up equals the       *)
(* room's (votes, revealed).                                               *)
(***************************************************************************)
C3_MembersInSync ==
    \A o \in Objs :
        NoPassOn(o) /\ lastOp[o] \in {"vote", "reveal", "reset"} =>
            \A c \in clients[o] : Running(c) /\ ~broken[c] => lastMsg[c] = <<State(o)>>

\* The handler of c reads a malformed frame in this step.
MalformedFrame(H, c) ==
    \/ RecvNonObject(H, c)
    \/ \E kind \in Undecoded : RecvUndecoded(H, c, kind)
    \/ \E kind \in Ignored : RecvIgnored(c, kind)

(***************************************************************************)
(* C4. A malformed frame is ignored: votes, revealed and members of every  *)
(* room are unchanged, no connection receives a message, and the sender    *)
(* stays open and joined.                                                  *)
(***************************************************************************)
C4_MalformedIgnored ==
    [][\A c \in Conns : MalformedFrame({"lastMsg"}, c) =>
          /\ UNCHANGED <<votes, revealed, clients, lastMsg>>
          /\ pc'[c] = "recv"]_vars

(***************************************************************************)
(* C5. A registry entry is removed only when the Room registered under the *)
(* identifier has no member left at the moment of the removal.             *)
(***************************************************************************)
C5_RemovedOnlyWhenEmpty ==
    [][\A rid \in RoomIds : rooms[rid] # NoRoom /\ rooms'[rid] = NoRoom =>
          clients'[rooms[rid]] = {}]_vars

\* The history kept by Spec.
HSpec == {"lastMsg"}

\* The run with outcome out ends suspended in a send that has delivered its
\* message (to out.sending).
Delivers(out) == out.sending # NoConn /\ ~broken[out.sending]

\* The connections whose sends raised in the run, with outcome out, that a
\* frame from the handler of c starts.
FrameEvicts(c, out) == (clients[room[c]] \ out.pending) \ {out.sending}

\* The connections whose sends raised in the run, with outcome out, that the
\* handler of c makes when resumed: the one it awaited, if that send
\* raises, and the targets it has passed since.
ResumeEvicts(c, out) ==
    (IF SendRaises(c) THEN {sending[c]} ELSE {})
        \cup ((pending[c] \ out.pending) \ {out.sending})

\* The votes vs less the entries keyed by the user names of ev.
Without(vs, ev) ==
    [u \in Users |-> IF \E x \in ev : user[x] = u THEN NoVote ELSE vs[u]]

\* This step handles a frame of type act from connection c, a member of its
\* room, with value v, and runs the broadcast to its first suspension, with
\* outcome out.
FirstSend(c, act, v, out) ==
    /\ pc[c] = "recv" /\ nmsgs' # nmsgs /\ c \in clients[room[c]]
    /\ Frame(MaxMsgs, HSpec, c, act, v, out)

\* This step resumes, with outcome out, the broadcast that a frame of type
\* act from connection c, then a member of its room, started.
LaterSend(c, act, out) ==
    /\ pc[c] = "broadcast" /\ action[c] = act /\ pass[c].member
    /\ SendNext(HSpec, c, out)

\* The frames of Spec that start a broadcast: type and value.
SpecFrames ==
    {<<"vote", v>> : v \in SpecVotes} \cup {<<"reveal", NoVote>>, <<"reset", NoVote>>}

\* The handler of c is resumed in this step from the send it awaits: it is
\* then suspended in a send to another target, or its pass is over.
Resumes(c) ==
    pc[c] = "broadcast" /\ (sending'[c] # sending[c] \/ pc'[c] # "broadcast")

\* The targets of the pass of c that have been attempted.
Attempted(c) == pass[c].targets \ pending[c]

(***************************************************************************)
(* C6. A vote handled while the room is revealed leaves the room with      *)
(* revealed = false, and every state message of that vote's broadcast      *)
(* carries revealed = false.                                               *)
(***************************************************************************)
C6_VoteHidesReveal ==
    [][\A c \in Conns :
          /\ pc[c] = "recv" /\ revealed[room[c]] /\ nmsgs' # nmsgs =>
                \A v \in SpecVotes :
                    \A out \in FrameOutcomes(c, "vote", v) :
                        Frame(MaxMsgs, HSpec, c, "vote", v, out) =>
                            /\ ~revealed'[room[c]]
                            /\ Delivers(out) => ~lastMsg'[out.sending][1].revealed
          /\ Resumes(c) /\ pass[c].pre =>
                \A out \in ResumeOutcomes(c) :
                    LaterSend(c, "vote", out) /\ Delivers(out) =>
                        ~lastMsg'[out.sending][1].revealed]_vars

\* A vote arrived while the room was revealed, and a member has received a
\* message of its broadcast.
C6_Witness ==
    \E c \in Conns :
        /\ pc[c] = "broadcast" /\ action[c] = "vote" /\ pass[c].pre
        /\ ~revealed[room[c]]
        /\ \E ws \in Attempted(c) : ~broken[ws] /\ lastMsg[ws] = <<State(room[c])>>

(***************************************************************************)
(* C7 as stated. After a member with user name u sends a vote with value   *)
(* v and no other frame of the room is handled until the vote's broadcast  *)
(* pass has finished, the room has votes[u] = v and every message the pass *)
(* delivers maps u to v.                                                   *)
(***************************************************************************)
C7_VoteReachesAll ==
    [][\A c \in Conns :
          /\ pc[c] = "recv" /\ nmsgs' # nmsgs =>
                \A v \in SpecVotes :
                    \A out \in FrameOutcomes(c, "vote", v) :
                        FirstSend(c, "vote", v, out) =>
                            /\ Delivers(out) => lastMsg'[out.sending][1].votes[user[c]] = v
                            /\ pc'[c] = "recv" => votes'[room[c]][user[c]] = v
          /\ Resumes(c) /\ pass[c].quiet =>
                \A out \in ResumeOutcomes(c) :
                    LaterSend(c, "vote", out) =>
                        /\ Delivers(out) =>
                              lastMsg'[out.sending][1].votes[user[c]] = pass[c].value
                        /\ pc'[c] = "recv" =>
                              votes'[room[c]][user[c]] = pass[c].value]_vars

(***************************************************************************)
(* C7 as amended. The same, provided that until the pass has finished no   *)
(* connection with user name u is removed from the room, by the end of its *)
(* handler or after a failed delivery to it (which removes the vote of its *)
(* user name again even when it has already left the room).                *)
(***************************************************************************)
C7_VoteReachesAllKept ==
    [][\A c \in Conns :
          /\ pc[c] = "recv" /\ nmsgs' # nmsgs =>
                \A v \in SpecVotes :
                    \A out \in FrameOutcomes(c, "vote", v) :
                        FirstSend(c, "vote", v, out)
                          /\ (\A x \in FrameEvicts(c, out) : user[x] # user[c]) =>
                            /\ Delivers(out) => lastMsg'[out.sending][1].votes[user[c]] = v
                            /\ pc'[c] = "recv" => votes'[room[c]][user[c]] = v
          /\ Resumes(c) /\ pass[c].quiet /\ pass[c].kept =>
                \A out \in ResumeOutcomes(c) :
                    LaterSend(c, "vote", out)
                      /\ (\A x \in ResumeEvicts(c, out) : user[x] # user[c]) =>
                        /\ Delivers(out) =>
                              lastMsg'[out.sending][1].votes[user[c]] = pass[c].value
                        /\ pc'[c] = "recv" =>
                              votes'[room[c]][user[c]] = pass[c].value]_vars

\* A member's vote is being broadcast, undisturbed, and a member has
\* received it.
C7_Witness ==
    \E c \in Conns :
        /\ pc[c] = "broadcast" /\ action[c] = "vote"
        /\ pass[c].member /\ pass[c].quiet /\ pass[c].kept
        /\ votes[room[c]][user[c]] = pass[c].value
        /\ \E ws \in Attempted(c) :
              /\ ~broken[ws] /\ lastMsg[ws] # NoMsg
              /\ lastMsg[ws][1].votes[user[c]] = pass[c].value

(***************************************************************************)
(* C8. The step that handles a reset leaves the room with no votes and     *)
(* revealed = false, whatever the state before: both writes are made in    *)
(* the one step, so no other handler acts between them.                    *)
(***************************************************************************)
C8_ResetClearsBoth ==
    [][\A c \in Conns :
          pc[c] = "recv" /\ nmsgs' # nmsgs =>
             \A out \in FrameOutcomes(c, "reset", NoVote) :
                 Frame(MaxMsgs, HSpec, c, "reset", NoVote, out) =>
                     votes'[room[c]] = EmptyVotes /\ ~revealed'[room[c]]]_vars

\* A reset arrived while the room was revealed and is being broadcast.
C8_Witness ==
    \E c \in Conns :
        /\ pc[c] = "broadcast" /\ action[c] = "reset" /\ pass[c].pre
        /\ votes[room[c]] = EmptyVotes /\ ~revealed[room[c]]

(***************************************************************************)
(* C9. reveal and reset are idempotent: applied to the pair that a reveal  *)
(* (a reset) has just produced, reveal (reset) gives that pair again, and  *)
(* the pair a reset produces is ({}, false).                               *)
(***************************************************************************)
C9_Idempotent ==
    \A c \in Conns :
        pc[c] = "broadcast" =>
            /\ action[c] = "reveal" => reveal(pass[c].start) = pass[c].start
            /\ action[c] = "reset" =>
                  /\ reset(pass[c].start) = pass[c].start
                  /\ pass[c].start = Pair(EmptyVotes, FALSE)

\* A reveal arrived while the room was already revealed, with votes in it.
C9_Witness ==
    \E c \in Conns :
        /\ pc[c] = "broadcast" /\ action[c] = "reveal" /\ pass[c].pre
        /\ pass[c].start.votes # EmptyVotes

(***************************************************************************)
(* C10. When a send of a broadcast pass fails, the target is removed from  *)
(* the room in the step in which the send raises and the pass goes on to   *)
(* the targets left: the run stops at the next send that suspends, having  *)
(* removed the targets whose sends raised before it, and the pass ends     *)
(* only when there is no target left.                                      *)
(***************************************************************************)
C10_FailedSendGoesOn ==
    [][\A c \in Conns :
          LET o == room[c]
              GoesOn(left, out) ==
                  /\ \A ws \in left \ (out.pending \cup {out.sending}) :
                        ws \notin clients'[o]
                  /\ pending'[c] = out.pending /\ sending'[c] = out.sending
                  /\ IF pc'[c] = "broadcast"
                     THEN sending'[c] \in left /\ pending'[c] \subseteq left \ {sending'[c]}
                     ELSE \A ws \in left : ws \notin clients'[o]
          IN /\ pc[c] = "recv" /\ nmsgs' # nmsgs =>
                   \A f \in SpecFrames :
                       \A out \in FrameOutcomes(c, f[1], f[2]) :
                           Frame(MaxMsgs, HSpec, c, f[1], f[2], out) =>
                               GoesOn(clients[o], out)
             /\ Resumes(c) =>
                   \A out \in ResumeOutcomes(c) :
                       SendNext(HSpec, c, out) =>
                           /\ SendRaises(c) => sending[c] \notin clients'[o]
                           /\ GoesOn(pending[c], out)]_vars

\* The only pass so far has had a send that raised, has removed its target,
\* whose handler is still running, and is suspended in a send to another.
C10_Witness ==
    \E c \in Conns :
        /\ nmsgs = 1 /\ pc[c] = "broadcast"
        /\ \E ws \in Attempted(c) \ {sending[c]} :
              Running(ws) /\ ws \notin clients[room[c]]

(***************************************************************************)
(* C11. A connection attempt in which roomId or user is missing or empty   *)
(* is rejected with no side effects: the registry, the members, the votes  *)
(* and the revealed flag of every room are unchanged and no connection     *)
(* receives a state message.                                               *)
(***************************************************************************)
C11_RejectNoEffect ==
    [][\A c \in Conns :
          pc[c] = "idle" /\ pc'[c] = "rejected" =>
              UNCHANGED <<rooms, clients, votes, revealed, lastMsg>>]_vars

\* An attempt has been rejected after another connection had joined a room,
\* which is registered and holds that member and a vote.
C11_Witness ==
    \E c, d \in Conns :
        /\ d < c /\ pc[c] = "rejected" /\ Running(d)
        /\ Registered(room[d]) /\ d \in clients[room[d]]
        /\ votes[room[d]] # EmptyVotes

\* The handler of c, given both parameters, joins in this step: it goes on
\* to wait for frames, or ends at line 104.
Joins(c) == pc[c] = "idle" /\ pc'[c] \in {"recv", "raised"}

\* The handler of c runs its finally clause and ends in this step.
Leaves(c) == Running(c) /\ pc'[c] \in {"done", "raised"}

(***************************************************************************)
(* C12. A join adds the connection to the members of the room registered   *)
(* under its identifier, leaves that room's votes and revealed flag        *)
(* unchanged, and sends the room's current state to the new connection     *)
(* (when its peer is there to receive it) and to no other connection.      *)
(***************************************************************************)
C12_JoinSendsToJoinerOnly ==
    [][\A c \in Conns :
          Joins(c) =>
              LET o == room'[c]
              IN /\ rooms'[room_id'[c]] = o
                 /\ clients'[o] = clients[o] \cup {c}
                 /\ votes'[o] = votes[o] /\ revealed'[o] = revealed[o]
                 /\ \A d \in Conns \ {c} : lastMsg'[d] = lastMsg[d]
                 /\ Join(Pairs, HSpec, c, room_id'[c], user'[c], TRUE) =>
                       /\ pc'[c] = "recv"
                       /\ lastMsg'[c] = <<Pair(votes[o], revealed[o])>>]_vars

(***************************************************************************)
(* C13. A room identifier under which no connection has joined has no      *)
(* registry entry; it has one right after every join under it; and it has  *)
(* none right after the handler of the last running connection that joined *)
(* under it has ended.                                                     *)
(***************************************************************************)
C13_RoomLifecycle ==
    [][/\ \A rid \in RoomIds :
             (\A c \in Conns : room_id'[c] # rid) => rooms'[rid] = NoRoom
       /\ \A c \in Conns :
             /\ Joins(c) => rooms'[room_id'[c]] # NoRoom
             /\ Leaves(c) /\ (\A d \in Conns \ {c} : room_id[d] = room_id[c] => ~Running(d)) =>
                   rooms'[room_id[c]] = NoRoom]_vars

\* This step is taken by the handler of c in a run of SpecRooms: it joins,
\* handles a vote, reveal or reset frame and runs the broadcast to its first
\* suspension, resumes its broadcast (evicting the targets whose sends
\* raise), or ends.
StepOf(c) ==
    \/ Joins(c)
    \/ Leaves(c)
    \/ /\ pc[c] = "recv" /\ nmsgs' # nmsgs
       /\ \/ \E out \in FrameOutcomes(c, "vote", "5") :
                Frame(MaxMsgsRooms, HSpec, c, "vote", "5", out)
          \/ \E act \in {"reveal", "reset"} : \E out \in FrameOutcomes(c, act, NoVote) :
                Frame(MaxMsgsRooms, HSpec, c, act, NoVote, out)
    \/ /\ pc[c] = "broadcast"
       /\ \E out \in ResumeOutcomes(c) : SendNext(HSpec, c, out)

(***************************************************************************)
(* C14. Rooms are independent: a step taken by the handler of a connection *)
(* of room identifier R (join, vote, reveal, reset, a run of its broadcast *)
(* with the evictions it may make, disconnect) leaves the registry entry   *)
(* of every other identifier and the members, votes and revealed flag of   *)
(* every Room of another identifier unchanged, and delivers no message to  *)
(* a connection of another identifier.                                     *)
(***************************************************************************)
C14_RoomsIndependent ==
    [][\A c \in Conns :
          StepOf(c) =>
              LET rid == room_id'[c]
              IN /\ \A r \in RoomIds \ {rid} : rooms'[r] = rooms[r]
                 /\ \A o \in Objs :
                       room_id'[o] # rid =>
                           /\ clients'[o] = clients[o]
                           /\ votes'[o] = votes[o]
                           /\ revealed'[o] = revealed[o]
                 /\ \A d \in Conns : room_id'[d] # rid => lastMsg'[d] = lastMsg[d]]_vars

\* Two rooms have a member each; a vote has been handled and revealed in
\* one while the other is as it was created and its member holds the empty
\* state it received on joining.
C14_Witness ==
    \E c, d \in Conns :
        /\ Running(c) /\ Running(d) /\ room_id[c] # room_id[d]
        /\ Registered(room[c]) /\ Registered(room[d])
        /\ c \in clients[room[c]] /\ d \in clients[room[d]]
        /\ votes[room[c]] # EmptyVotes /\ revealed[room[c]]
        /\ State(room[d]) = Pair(EmptyVotes, FALSE)
        /\ ~broken[d] /\ lastMsg[d] = <<Pair(EmptyVotes, FALSE)>>

(***************************************************************************)
(* C15. When a connection leaves a room, by the end of its handler or by   *)
(* eviction after a failed send of a broadcast, it is removed from the     *)
(* members and the vote keyed by its user name is removed, whether or not  *)
(* another member has the same user name; the votes of the other user      *)
(* names are as the step's frame, if any, has set them.                    *)
(***************************************************************************)
C15_LeaveErasesVote ==
    [][\A c \in Conns :
          LET o == room[c]
              Gone(ev, vs) ==
                  /\ clients'[o] = clients[o] \ ev
                  /\ votes'[o] = Without(vs, ev)
          IN /\ Leaves(c) => Gone({c}, votes[o])
             /\ Resumes(c) =>
                   \A out \in ResumeOutcomes(c) :
                       SendNext(HSpec, c, out) => Gone(ResumeEvicts(c, out), votes[o])
             /\ pc[c] = "recv" /\ nmsgs' # nmsgs =>
                   /\ \A v \in SpecVotes : \A out \in FrameOutcomes(c, "vote", v) :
                         Frame(MaxMsgs, HSpec, c, "vote", v, out) =>
                             Gone(FrameEvicts(c, out),
                                  submit_vote(State(o), user[c], v).votes)
                   /\ \A out \in FrameOutcomes(c, "reveal", NoVote) :
                         Frame(MaxMsgs, HSpec, c, "reveal", NoVote, out) =>
                             Gone(FrameEvicts(c, out), votes[o])
                   /\ \A out \in FrameOutcomes(c, "reset", NoVote) :
                         Frame(MaxMsgs, HSpec, c, "reset", NoVote, out) =>
                             Gone(FrameEvicts(c, out), EmptyVotes)]_vars

\* Two connections of one user name joined a room; the only frame handled
\* was a vote of that user, which the one still a member received; the
\* other has left and the room no longer holds the vote.
C15_Witness ==
    \E c, d \in Conns :
        /\ c # d /\ user[c] = user[d] /\ room[c] = room[d]
        /\ Ended(c) /\ Running(d) /\ d \in clients[room[d]]
        /\ nmsgs = 1 /\ lastMsg[d] # NoMsg
        /\ lastMsg[d][1].votes[user[d]] # NoVote
        /\ votes[room[d]][user[d]] = NoVote

\* The targets of the pass of c that have left the room since it began.
Left(c) == pass[c].targets \ clients[room[c]]

(***************************************************************************)
(* C16 as stated. A disconnect triggers no broadcast: the step in which a  *)
(* handler ends delivers no message, and once a connection has left a room *)
(* no message is delivered to a remaining member until the next vote,      *)
(* reveal or reset of the room is handled; in particular a broadcast pass  *)
(* that has lost a target, with no frame of the room handled since it      *)
(* began, delivers nothing more after the disconnect of that target.       *)
(***************************************************************************)
C16_NoSendAfterLeave ==
    [][\A c \in Conns :
          /\ Leaves(c) => \A d \in Conns \ {c} : lastMsg'[d] = lastMsg[d]
          /\ Resumes(c) /\ pass[c].quiet /\ (\E x \in Left(c) : Ended(x)) =>
                \A out \in ResumeOutcomes(c) :
                    SendNext(HSpec, c, out) => ~Delivers(out)]_vars

(***************************************************************************)
(* C16 as amended. A disconnect triggers no broadcast: the step in which a *)
(* handler ends delivers no message, and in a step that handles no vote,   *)
(* reveal or reset a connection that has joined receives a message only as *)
(* a target still pending of a broadcast pass in progress, so that between *)
(* a leave and the next frame of the room the only messages sent are the   *)
(* remaining sends of passes that were in progress at the leave.           *)
(***************************************************************************)
C16_NoSendBesidePasses ==
    [][\A d \in Conns :
          /\ \A c \in Conns \ {d} : Leaves(c) => lastMsg'[d] = lastMsg[d]
          /\ nmsgs' = nmsgs /\ Running(d) /\ lastMsg'[d] # lastMsg[d] /\ lastMsg'[d] # NoMsg =>
                \E c \in Conns :
                    /\ pc[c] = "broadcast" /\ d \in pending[c] /\ sending'[c] = d
                    /\ lastMsg'[d] = <<Serialise(State(room[c])', payload[c])>>]_vars

\* A connection whose vote a member of another user name received has left
\* the room, no frame has been handled since and no pass is in progress:
\* the member still holds the message with the vote the room has dropped.
C16_Witness ==
    \E c, d \in Conns :
        /\ user[c] # user[d] /\ room[c] = room[d]
        /\ Ended(c) /\ Running(d) /\ d \in clients[room[d]] /\ ~broken[d]
        /\ nmsgs = 1 /\ NoPassOn(room[d]) /\ lastMsg[d] # NoMsg
        /\ lastMsg[d][1].votes[user[c]] # NoVote
        /\ votes[room[d]][user[c]] = NoVote

(***************************************************************************)
(* C17 as stated. The step that handles a reveal frame leaves the room     *)
(* with revealed = true, whatever it was, and with the votes and the       *)
(* members it had.                                                         *)
(***************************************************************************)
C17_RevealKeepsAll ==
    [][\A c \in Conns :
          pc[c] = "recv" /\ nmsgs' # nmsgs =>
             \A out \in FrameOutcomes(c, "reveal", NoVote) :
                 Frame(MaxMsgs, HSpec, c, "reveal", NoVote, out) =>
                     /\ revealed'[room[c]]
                     /\ votes'[room[c]] = votes[room[c]]
                     /\ clients'[room[c]] = clients[room[c]]]_vars

(***************************************************************************)
(* C17 as amended. The step that handles a reveal frame leaves the room    *)
(* with revealed = true, whatever it was; the reveal itself changes        *)
(* neither the votes nor the members, and each send of the broadcast that  *)
(* follows changes them only when it fails, by removing its target and the *)
(* vote keyed by the target's user name.                                   *)
(***************************************************************************)
C17_RevealKeepsAllButEvicted ==
    [][\A c \in Conns :
          LET o == room[c]
              Sent(ev) ==
                  /\ clients'[o] = clients[o] \ ev
                  /\ \A u \in Users :
                        votes'[o][u] =
                            IF \E x \in ev : user[x] = u THEN NoVote ELSE votes[o][u]
          IN /\ pc[c] = "recv" /\ nmsgs' # nmsgs =>
                   \A out \in FrameOutcomes(c, "reveal", NoVote) :
                       Frame(MaxMsgs, HSpec, c, "reveal", NoVote, out) =>
                           revealed'[o] /\ Sent(FrameEvicts(c, out))
             /\ Resumes(c) /\ action[c] = "reveal" =>
                   \A out \in ResumeOutcomes(c) :
                       SendNext(HSpec, c, out) =>
                           revealed'[o] = revealed[o] /\ Sent(ResumeEvicts(c, out))]_vars

\* A reveal arrived while the room was hidden and had votes, and is being
\* broadcast: the room is revealed, a member has received the broadcast,
\* and the votes and the members are the ones there were.
C17_Witness ==
    \E c \in Conns :
        /\ pc[c] = "broadcast" /\ action[c] = "reveal" /\ ~pass[c].pre
        /\ pass[c].quiet /\ Left(c) = {}
        /\ revealed[room[c]] /\ votes[room[c]] # EmptyVotes
        /\ State(room[c]) = pass[c].start
        /\ \E ws \in Attempted(c) : ~broken[ws] /\ lastMsg[ws] = <<State(room[c])>>

(***************************************************************************)
(* C18. All the connections whose handlers are running and that joined     *)
(* with one room identifier hold the same Room object, and it is the one   *)
(* the registry holds for the identifier.                                  *)
(***************************************************************************)
C18_OneRoomPerId ==
    \A c \in Conns :
        Running(c) =>
            /\ rooms[room_id[c]] = room[c]
            /\ \A d \in Conns :
                  Running(d) /\ room_id[d] = room_id[c] => room[d] = room[c]

(***************************************************************************)
(* C19. Each user name that has an entry in a room's votes is the user     *)
(* name of a connection in the room's member set.                          *)
(***************************************************************************)
C19_VotersAreMembers ==
    \A o \in Objs, u \in Users :
        votes[o][u] # NoVote => \E c \in clients[o] : user[c] = u

(***************************************************************************)
(* C20. Every message a broadcast pass delivers after its first suspension *)
(* carries the (votes, revealed) the room had when the pass began.         *)
(***************************************************************************)
C20_PassSendsSnapshot ==
    [][\A c \in Conns :
          Resumes(c) =>
             \A out \in ResumeOutcomes(c) :
                 SendNext(HSpec, c, out) /\ Delivers(out) =>
                     lastMsg'[out.sending] = <<pass[c].start>>]_vars

====
